---- MODULE Spec2Model ----
(***************************************************************************)
(* The network bridge of gear (src/src/network.rs): Network (the Bridge),  *)
(* Socket (the outbound handle) and the background poll loop that owns the *)
(* laminar transport.  One Bridge, a bounded number of bindings on it.     *)
(*                                                                         *)
(* The transport and the two crossbeam channels are external: they are     *)
(* modelled where the code uses them.  laminar's socket owns an endpoint   *)
(* of both channels, so the packet channel loses its receiving side and    *)
(* the event channel its sending side exactly when the poll-loop closure   *)
(* returns and drops the transport.                                        *)
(***************************************************************************)
EXTENDS Integers, Sequences, FiniteSets, TLC

\* ---- bounds of the model ------------------------------------------------
\* successful binds on the Bridge
MaxBind == 2
\* messages put on the channels: packets sent plus events produced
MaxTraffic == 2

Bindings == 1..MaxBind
NoBinding == 0

\* payloads of packets and peer addresses.  A payload never decides a
\* branch of the code, so the n-th message put on a channel of binding b
\* carries <<b, n>>: every packet is then distinguishable from every other
\* packet, and every event from every other event.
Data == Bindings \X (1..MaxTraffic)
Packets == Data

\* laminar::SocketEvent, the transport's event
SocketEventKinds == {"Packet", "Connect", "Timeout", "Disconnect"}
SocketEvent == [kind : SocketEventKinds, data : Data]

\* NetworkConfig is passed through to the transport unread
Configs == {"default", "custom"}

\* NetworkEvent, the event handed to the application
NetworkEventTags == {"Message", "Connect", "Timeout", "Disconnect"}
NetworkEvent == [tag : NetworkEventTags, data : Data]

VARIABLES
    nbind,          \* number of successful binds so far (threads spawned)
    pc,             \* pc[b]: position of the poll-loop thread of binding b
    stop_signal,    \* stop_signal[b]: the shared AtomicBool of binding b
    alive,          \* alive[b]: the Socket handle of binding b exists
    pktq,           \* pktq[b]: packet channel (Socket::sender -> transport)
    evq,            \* evq[b]: event channel (transport -> Network::receiver)
    sent,           \* sent[b]: packets accepted by Socket::send, in call order
    taken,          \* taken[b]: packets taken up by the transport's polls
    produced,       \* produced[b]: events the transport put on the channel
    delivered,      \* delivered[b]: events returned by get_event
    socket_thread,  \* Network::socket_thread (NoBinding is None)
    receiver,       \* Network::receiver (NoBinding is None)
    appPc,          \* application context: "idle", "join" or "panicked"
    joinee,         \* the JoinHandle taken by get_event while it joins
    joins,          \* joins[b]: completed joins of the thread of binding b
    ret             \* result of the last completed application call

vars == <<nbind, pc, stop_signal, alive, pktq, evq, sent, taken, produced,
          delivered, socket_thread, receiver, appPc, joinee, joins, ret>>

bindingVars == <<nbind, pc, stop_signal, alive>>
chanVars == <<pktq, evq, sent, taken, produced, delivered>>
bridgeVars == <<socket_thread, receiver, joinee, joins>>

\* ---- helpers ------------------------------------------------------------
RECURSIVE SumLen(_, _)
SumLen(f, n) == IF n = 0 THEN 0 ELSE Len(f[n]) + SumLen(f, n - 1)

\* The closure of the thread has returned: the transport, and with it its
\* ends of both channels, is dropped.
TransportDropped(b) == pc[b] \in {"dropped", "done"}

\* messages put on the channels so far
Traffic == SumLen(sent, MaxBind) + SumLen(produced, MaxBind)

\* the variant of the n-th event of a transport: a peer connects, sends a
\* packet, times out, disconnects, and so on
KindOf(n) ==
    CASE n % 4 = 1 -> "Connect"
      [] n % 4 = 2 -> "Packet"
      [] n % 4 = 3 -> "Timeout"
      [] n % 4 = 0 -> "Disconnect"

\* the k events a poll of binding b found, after the base events before them
Arrived(b, k, base) ==
    [i \in 1..k |-> [kind |-> KindOf(base + i), data |-> <<b, base + i>>]]

\* ---- Init: Network::new() -------------------------------------------------
Init ==
    /\ nbind = 0
    /\ pc = [b \in Bindings |-> "none"]
    /\ stop_signal = [b \in Bindings |-> FALSE]
    /\ alive = [b \in Bindings |-> FALSE]
    /\ pktq = [b \in Bindings |-> <<>>]
    /\ evq = [b \in Bindings |-> <<>>]
    /\ sent = [b \in Bindings |-> <<>>]
    /\ taken = [b \in Bindings |-> <<>>]
    /\ produced = [b \in Bindings |-> <<>>]
    /\ delivered = [b \in Bindings |-> <<>>]
    /\ socket_thread = NoBinding
    /\ receiver = NoBinding
    /\ appPc = "idle"
    /\ joinee = NoBinding
    /\ joins = [b \in Bindings |-> 0]
    /\ ret = [kind |-> "Init"]

\* ---- pure parts of the code -----------------------------------------------

\* the match with the arms of Timeout and Disconnect mixed up
ToNetworkEventMixed(message) ==
    CASE message.kind = "Packet"     -> [tag |-> "Message", data |-> message.data]
      [] message.kind = "Connect"    -> [tag |-> "Connect", data |-> message.data]
      [] message.kind = "Timeout"    -> [tag |-> "Disconnect", data |-> message.data]
      [] message.kind = "Disconnect" -> [tag |-> "Disconnect", data |-> message.data]

\* get_event's match on the SocketEvent: one NetworkEvent per variant
ToNetworkEvent(message) ==
    CASE message.kind = "Packet"     -> [tag |-> "Message", data |-> message.data]
      [] message.kind = "Connect"    -> [tag |-> "Connect", data |-> message.data]
      [] message.kind = "Timeout"    -> [tag |-> "Timeout", data |-> message.data]
      [] message.kind = "Disconnect" -> [tag |-> "Disconnect", data |-> message.data]

RECURSIVE ToNetworkEvents(_)
ToNetworkEvents(s) ==
    IF s = <<>> THEN <<>>
    ELSE <<ToNetworkEvent(Head(s))>> \o ToNetworkEvents(Tail(s))

\* try_recv as a stack: the newest message is handed out
TryRecvNewest(q, disconnected) ==
    IF q # <<>> THEN [res |-> "Ok", msg |-> q[Len(q)], rest |-> Tail(q)]
    ELSE IF disconnected THEN [res |-> "Disconnected", rest |-> q]
    ELSE [res |-> "Empty", rest |-> q]

\* try_recv that empties the channel and hands out its first message
TryRecvDrains(q, disconnected) ==
    IF q # <<>> THEN [res |-> "Ok", msg |-> Head(q), rest |-> <<>>]
    ELSE IF disconnected THEN [res |-> "Disconnected", rest |-> q]
    ELSE [res |-> "Empty", rest |-> q]

\* try_recv on a channel that never reports the loss of its senders
TryRecvNeverDisconnected(q, disconnected) ==
    IF q # <<>> THEN [res |-> "Ok", msg |-> Head(q), rest |-> Tail(q)]
    ELSE [res |-> "Empty", rest |-> q]

\* try_recv that reports an empty channel as a disconnected one
TryRecvEmptyIsDisconnected(q, disconnected) ==
    IF q # <<>> THEN [res |-> "Ok", msg |-> Head(q), rest |-> Tail(q)]
    ELSE [res |-> "Disconnected", rest |-> q]

\* try_recv that reports the disconnection although messages are queued
TryRecvEager(q, disconnected) ==
    IF disconnected THEN [res |-> "Disconnected", rest |-> q]
    ELSE IF q # <<>> THEN [res |-> "Ok", msg |-> Head(q), rest |-> Tail(q)]
    ELSE [res |-> "Empty", rest |-> q]

\* crossbeam's Receiver::try_recv: a queued message first; only an empty
\* channel reports Empty, or Disconnected when every sender is gone.
\* rest is the channel after the call.
TryRecv(q, disconnected) ==
    IF q # <<>> THEN [res |-> "Ok", msg |-> Head(q), rest |-> Tail(q)]
    ELSE IF disconnected THEN [res |-> "Disconnected", rest |-> q]
    ELSE [res |-> "Empty", rest |-> q]

\* the Option read without being emptied
TakeKeeps(opt) == opt

\* Option::take: what it leaves in the Option
Take(opt) == NoBinding

\* the poll loop spawned before the result of the transport's bind is looked at
SpawnsAlways(ok) == TRUE

\* bind_with_config goes on to spawn the poll loop only when the transport
\* bound: the ? operator returns the error before anything else is done
Spawns(ok) == ok

\* a send that fails when the channel already holds a packet
SenderSendBounded(q, p, receiverGone) ==
    IF receiverGone \/ q # <<>> THEN [res |-> "Err", q |-> q]
    ELSE [res |-> "Ok", q |-> Append(q, p)]

\* crossbeam's Sender::send on the unbounded packet channel: Err when the
\* receiving side is gone, else the packet is appended.
SenderSend(q, p, receiverGone) ==
    IF receiverGone THEN [res |-> "Err", q |-> q]
    ELSE [res |-> "Ok", q |-> Append(q, p)]

\* the result of the channel send ignored
SendOutcomeIgnored(r) == "Ok"

\* Socket::send: the result of the channel send is unwrapped
SendOutcome(r) == IF r.res = "Ok" THEN "Ok" ELSE "Panic"

\* a loop that never reads the flag
LoopConditionForever(b) == TRUE

\* a loop that runs while the flag is set
LoopConditionInverted(b) == stop_signal[b]

\* a check that consumes the signal it reads
LoadClears(old) == FALSE

\* what the load of the while condition leaves in the flag: a load writes
\* nothing
LoadLeaves(old) == old

\* a loop that goes on while packets are still queued
LoopConditionDrains(b) == ~stop_signal[b] \/ pktq[b] # <<>>

\* the while condition of the poll loop: !stop.load(Relaxed)
LoopCondition(b) == ~stop_signal[b]

\* impl Drop for Socket: stop_signal.swap(true)
DropValue(old) == TRUE

\* a flag created set
NewStopSignalSet == TRUE

\* the initial value of a binding's flag: AtomicBool::new(false)
NewStopSignal == FALSE

RECURSIVE Reverse(_)
Reverse(q) == IF q = <<>> THEN <<>> ELSE Append(Reverse(Tail(q)), Head(q))

\* a poll that takes the queued packets newest first
PollTakeNewestFirst(q) == Reverse(q)

\* the packets one transport poll takes from the packet channel: all queued
PollTake(q) == q

\* ---- application context: Network ------------------------------------------

\* Network::bind_with_config
\* ok: whether laminar::Socket::bind_with_config bound the transport
BindWithConfig(config, ok) ==
    /\ appPc = "idle"
    /\ IF Spawns(ok)
       THEN /\ nbind < MaxBind
            /\ LET b == nbind + 1 IN
               /\ nbind' = b
               /\ pc' = [pc EXCEPT ![b] = "check"]
               /\ stop_signal' = [stop_signal EXCEPT ![b] = NewStopSignal]
               /\ alive' = [alive EXCEPT ![b] = TRUE]
               /\ socket_thread' = b
               /\ receiver' = b
            /\ UNCHANGED <<chanVars, appPc, joinee, joins>>
       ELSE UNCHANGED <<bindingVars, chanVars, bridgeVars, appPc>>
    /\ ret' = [kind |-> IF ok THEN "Ok" ELSE "Err"]

\* Network::bind: bind_with_config with the default configuration
Bind(ok) == BindWithConfig("default", ok)

\* Network::get_event up to its return, or up to the join it blocks in
GetEvent ==
    /\ appPc = "idle"
    /\ IF receiver = NoBinding
       THEN /\ ret' = [kind |-> "None"]
            /\ UNCHANGED <<bindingVars, chanVars, bridgeVars, appPc>>
       ELSE LET b == receiver
                r == TryRecv(evq[b], TransportDropped(b))
            IN CASE r.res = "Ok" ->
                      /\ evq' = [evq EXCEPT ![b] = r.rest]
                      /\ delivered' = [delivered EXCEPT ![b] = Append(@, ToNetworkEvent(r.msg))]
                      /\ ret' = [kind |-> "Some", ev |-> ToNetworkEvent(r.msg)]
                      /\ UNCHANGED <<bindingVars, pktq, sent, taken, produced,
                                     bridgeVars, appPc>>
                 [] r.res = "Empty" ->
                      /\ ret' = [kind |-> "None"]
                      /\ UNCHANGED <<bindingVars, chanVars, bridgeVars, appPc>>
                 [] r.res = "Disconnected" ->
                      IF socket_thread = NoBinding
                      THEN /\ appPc' = "panicked"
                           /\ ret' = [kind |-> "Panic"]
                           /\ UNCHANGED <<bindingVars, chanVars, bridgeVars>>
                      ELSE /\ joinee' = socket_thread
                           /\ socket_thread' = Take(socket_thread)
                           /\ appPc' = "join"
                           /\ UNCHANGED <<bindingVars, chanVars, receiver, joins, ret>>

\* get_event, from the return of JoinHandle::join to its return
GetEventJoined ==
    /\ appPc = "join"
    /\ pc[joinee] = "done"
    /\ joins' = [joins EXCEPT ![joinee] = @ + 1]
    /\ joinee' = NoBinding
    /\ receiver' = Take(receiver)
    /\ appPc' = "idle"
    /\ ret' = [kind |-> "None"]
    /\ UNCHANGED <<bindingVars, chanVars, socket_thread>>

\* ---- the handle: Socket -----------------------------------------------------

\* Socket::send
Send(b, p) ==
    /\ appPc # "panicked"
    /\ alive[b]
    /\ Traffic < MaxTraffic
    /\ p = <<b, Len(sent[b]) + 1>>
    /\ LET r == SenderSend(pktq[b], p, TransportDropped(b)) IN
       /\ pktq' = [pktq EXCEPT ![b] = r.q]
       /\ IF SendOutcome(r) = "Ok"
          THEN /\ sent' = [sent EXCEPT ![b] = Append(@, p)]
               /\ ret' = [kind |-> "Sent"]
               /\ appPc' = appPc
          ELSE /\ sent' = sent
               /\ ret' = [kind |-> "Panic"]
               /\ appPc' = "panicked"
    /\ UNCHANGED <<bindingVars, evq, taken, produced, delivered, bridgeVars>>

\* a drop on one flag shared by all the bindings
DropSocketShared(b) ==
    /\ appPc # "panicked"
    /\ alive[b]
    /\ stop_signal' = [c \in Bindings |-> DropValue(stop_signal[c])]
    /\ alive' = [alive EXCEPT ![b] = FALSE]
    /\ UNCHANGED <<nbind, pc, chanVars, bridgeVars, appPc, ret>>

\* impl Drop for Socket
DropSocket(b) ==
    /\ appPc # "panicked"
    /\ alive[b]
    /\ stop_signal' = [stop_signal EXCEPT ![b] = DropValue(@)]
    /\ alive' = [alive EXCEPT ![b] = FALSE]
    /\ UNCHANGED <<nbind, pc, chanVars, bridgeVars, appPc, ret>>

\* ---- the background poll loop of binding b ---------------------------------

\* while !stop.load(..): enter the body, or leave the loop; leaving it ends
\* the closure, which drops the transport
LoopCheck(b) ==
    /\ pc[b] = "check"
    /\ pc' = [pc EXCEPT ![b] = IF LoopCondition(b) THEN "poll" ELSE "dropped"]
    /\ stop_signal' = [stop_signal EXCEPT ![b] = LoadLeaves(@)]
    /\ UNCHANGED <<nbind, alive, chanVars, bridgeVars, appPc, ret>>

\* socket.manual_poll(now); sleep(1ms): takes the queued packets to the
\* transport's outbound path and puts the newly arrived events on the
\* event channel
ManualPoll(b) ==
    /\ pc[b] = "poll"
    /\ \E k \in 0..(MaxTraffic - Traffic) :
        LET evs == Arrived(b, k, Len(produced[b])) IN
        /\ evq' = [evq EXCEPT ![b] = @ \o evs]
        /\ produced' = [produced EXCEPT ![b] = @ \o evs]
    /\ taken' = [taken EXCEPT ![b] = @ \o PollTake(pktq[b])]
    /\ pktq' = [pktq EXCEPT ![b] = <<>>]
    /\ pc' = [pc EXCEPT ![b] = "check"]
    /\ UNCHANGED <<nbind, stop_signal, alive, sent, delivered, bridgeVars, appPc, ret>>

\* the thread of the closure terminates (a join on it returns from here on)
ThreadExit(b) ==
    /\ pc[b] = "dropped"
    /\ pc' = [pc EXCEPT ![b] = "done"]
    /\ UNCHANGED <<nbind, stop_signal, alive, chanVars, bridgeVars, appPc, ret>>

\* ---- specification -----------------------------------------------------------
Next ==
    \/ \E ok \in BOOLEAN : Bind(ok)
    \/ \E config \in Configs, ok \in BOOLEAN : BindWithConfig(config, ok)
    \/ GetEvent
    \/ GetEventJoined
    \/ \E b \in Bindings, p \in Packets : Send(b, p)
    \/ \E b \in Bindings : DropSocket(b)
    \/ \E b \in Bindings : LoopCheck(b)
    \/ \E b \in Bindings : ManualPoll(b)
    \/ \E b \in Bindings : ThreadExit(b)

Spec == Init /\ [][Next]_vars

\* The poll-loop threads are scheduled and each transport poll returns; the
\* application keeps calling get_event.
Fairness ==
    /\ \A b \in Bindings :
        /\ WF_vars(LoopCheck(b))
        /\ WF_vars(ManualPoll(b))
        /\ WF_vars(ThreadExit(b))
    /\ WF_vars(GetEvent)
    /\ WF_vars(GetEventJoined)

FairSpec == Spec /\ Fairness

\* Socket::send taken by itself, on every state of its packet channel: the
\* first binding exists, its handle is held, and its poll-loop thread is at
\* any position, ended included.
InitSend ==
    /\ nbind = 1
    /\ pc \in {f \in [Bindings -> {"none", "check", "poll", "dropped", "done"}] :
                 /\ f[1] # "none"
                 /\ \A b \in Bindings \ {1} : f[b] = "none"}
    /\ stop_signal = [b \in Bindings |-> FALSE]
    /\ alive = [b \in Bindings |-> b = 1]
    /\ pktq = [b \in Bindings |-> <<>>]
    /\ evq = [b \in Bindings |-> <<>>]
    /\ sent = [b \in Bindings |-> <<>>]
    /\ taken = [b \in Bindings |-> <<>>]
    /\ produced = [b \in Bindings |-> <<>>]
    /\ delivered = [b \in Bindings |-> <<>>]
    /\ socket_thread = 1
    /\ receiver = 1
    /\ appPc = "idle"
    /\ joinee = NoBinding
    /\ joins = [b \in Bindings |-> 0]
    /\ ret = [kind |-> "Ok"]

SendSpec == InitSend /\ [][Next]_vars

\* get_event's match taken on every variant: the first binding is running,
\* its handle is held, and the first poll has put one event of any variant
\* on the receive channel.
InitEvent ==
    /\ nbind = 1
    /\ pc = [b \in Bindings |-> IF b = 1 THEN "check" ELSE "none"]
    /\ stop_signal = [b \in Bindings |-> FALSE]
    /\ alive = [b \in Bindings |-> b = 1]
    /\ pktq = [b \in Bindings |-> <<>>]
    /\ \E e \in {m \in SocketEvent : m.data = <<1, 1>>} :
        /\ evq = [b \in Bindings |-> IF b = 1 THEN <<e>> ELSE <<>>]
        /\ produced = evq
    /\ sent = [b \in Bindings |-> <<>>]
    /\ taken = [b \in Bindings |-> <<>>]
    /\ delivered = [b \in Bindings |-> <<>>]
    /\ socket_thread = 1
    /\ receiver = 1
    /\ appPc = "idle"
    /\ joinee = NoBinding
    /\ joins = [b \in Bindings |-> 0]
    /\ ret = [kind |-> "Ok"]

EventSpec == InitEvent /\ [][Next]_vars

TypeOK ==
    /\ nbind \in 0..MaxBind
    /\ pc \in [Bindings -> {"none", "check", "poll", "dropped", "done"}]
    /\ stop_signal \in [Bindings -> BOOLEAN]
    /\ alive \in [Bindings -> BOOLEAN]
    /\ \A b \in Bindings :
        /\ pktq[b] \in Seq(Packets) /\ sent[b] \in Seq(Packets) /\ taken[b] \in Seq(Packets)
        /\ evq[b] \in Seq(SocketEvent) /\ produced[b] \in Seq(SocketEvent)
        /\ delivered[b] \in Seq(NetworkEvent)
    /\ socket_thread \in {NoBinding} \cup Bindings
    /\ receiver \in {NoBinding} \cup Bindings
    /\ appPc \in {"idle", "join", "panicked"}
    /\ joinee \in {NoBinding} \cup Bindings
    /\ joins \in [Bindings -> Nat]
    /\ ret.kind \in {"Init", "Ok", "Err", "None", "Some", "Sent", "Panic"}

\* ---- properties ----------------------------------------------------------------

None == [kind |-> "None"]
Some(e) == [kind |-> "Some", ev |-> e]

\* the steps in which a get_event call returns
GetEventReturns == (GetEvent /\ appPc' = "idle") \/ GetEventJoined

\* the Bridge between two calls
Stopped == socket_thread = NoBinding /\ receiver = NoBinding
Running == socket_thread # NoBinding /\ receiver # NoBinding

\* delivered[b] followed by what is still queued is what the transport produced
EventsConserved ==
    \A b \in Bindings :
        ToNetworkEvents(produced[b]) = delivered[b] \o ToNetworkEvents(evq[b])

\* C1: the events the transport of a binding put on the receive channel are
\* returned by get_event in that order, each exactly once: at every moment
\* the events returned so far, followed by the events still queued, are the
\* events produced; a returning call hands out the head of the channel and
\* removes it, and returns None exactly when the channel is empty.  So once a
\* call returns None all N events have been returned.
C1_EventsInOrderExactlyOnce ==
    /\ []EventsConserved
    /\ [][(GetEventReturns /\ receiver # NoBinding) =>
            LET b == receiver IN
            IF evq[b] # <<>>
            THEN /\ ret' = Some(ToNetworkEvent(Head(evq[b])))
                 /\ delivered'[b] = Append(delivered[b], ret'.ev)
                 /\ evq'[b] = Tail(evq[b])
            ELSE /\ ret' = None
                 /\ delivered' = delivered
                 /\ delivered[b] = ToNetworkEvents(produced[b])]_vars

\* two events were produced on one binding, both were returned, and the call
\* after them returned None
C1_Witness ==
    \E b \in Bindings :
        /\ Len(produced[b]) >= 2
        /\ Len(delivered[b]) = Len(produced[b])
        /\ receiver = b
        /\ ret = None

\* C2: once the handle of a binding is dropped, the poll loop of that binding
\* leaves its loop and its thread terminates (the thread being scheduled and
\* every transport poll returning).
C2_DropStopsLoop ==
    \A b \in Bindings : (pc[b] # "none" /\ ~alive[b]) ~> (pc[b] = "done")

\* a handle was dropped while its loop was polling, and the thread is gone
C2_Witness ==
    \E b \in Bindings : ~alive[b] /\ pc[b] = "done" /\ Len(produced[b]) > 0

\* C3: with the poll loop ended and the receive channel empty, the next
\* get_event takes the thread handle and joins it, and returns None with
\* socket_thread and receiver both None; it does not panic and its join
\* returns.  So a Bridge whose handle is dropped reaches the stopped state
\* when get_event keeps being called (or a later bind replaces the binding).
C3_DisconnectStopsBridge ==
    /\ [][(GetEvent /\ receiver # NoBinding /\ TransportDropped(receiver)
              /\ evq[receiver] = <<>>)
            => (appPc' = "join" /\ joinee' = receiver /\ joinee' = socket_thread
                  /\ joins' = joins)]_vars
    /\ [][(appPc = "join" /\ appPc' # "join")
            => (/\ appPc' = "idle"
                /\ joins' = [joins EXCEPT ![joinee] = joins[joinee] + 1]
                /\ pc[joinee] = "done"
                /\ Stopped'
                /\ ret' = None)]_vars
    /\ [](appPc # "panicked")
    /\ (appPc = "join") ~> (appPc = "idle")
    /\ \A b \in Bindings :
        (receiver = b /\ ~alive[b]) ~> (Stopped \/ receiver > b)

\* the Bridge has joined the thread of a binding and is stopped
C3_Witness ==
    \E b \in Bindings :
        /\ joins[b] = 1
        /\ Stopped
        /\ appPc = "idle"
        /\ ret = None

\* C4: with no receive endpoint get_event returns None, changes nothing of
\* the Bridge, of the bindings or of the channels and joins nothing; the
\* thread of a binding is joined at most once.
C4_StoppedIsInert ==
    /\ [][(GetEvent /\ receiver = NoBinding)
            => (ret' = None /\ UNCHANGED <<bindingVars, chanVars, bridgeVars, appPc>>)]_vars
    /\ [](\A b \in Bindings : joins[b] <= 1)

\* get_event has returned None on a Bridge that holds no receive endpoint
C4_Witness == nbind = 0 /\ Stopped /\ ret = None

\* C5: the flag of a binding is set, and its poll loop has left the loop,
\* only when the handle of that binding has been dropped: as long as the
\* handle exists the flag is false and the loop is running.
C5_OnlyDropStops ==
    \A b \in Bindings :
        alive[b] => (~stop_signal[b] /\ pc[b] \in {"check", "poll"})

\* the first binding is still running after a send on it, a get_event, a
\* later bind and the shutdown of the later binding
C5_Witness ==
    /\ nbind = 2
    /\ alive[1] /\ pc[1] \in {"check", "poll"}
    /\ Len(sent[1]) > 0
    /\ ~alive[2] /\ pc[2] = "done"
    /\ joins[2] = 1

\* C6: a send on a handle whose poll loop has ended, the receiving side of
\* the packet channel gone with it, panics: the packet is not accepted, not
\* queued, and the call does not return normally.
C6_SendAfterExitPanics ==
    [][\A b \in Bindings, p \in Packets :
          (Send(b, p) /\ TransportDropped(b))
            => (/\ ret' = [kind |-> "Panic"]
                /\ appPc' = "panicked"
                /\ sent' = sent
                /\ pktq' = pktq)]_vars

\* a send has panicked on a held handle whose poll loop had ended
C6_Witness ==
    \E b \in Bindings :
        /\ alive[b] /\ TransportDropped(b)
        /\ ret = [kind |-> "Panic"]
        /\ appPc = "panicked"

\* C7: when the transport fails to bind, bind and bind_with_config return the
\* error, spawn no thread, create no handle and no flag, and leave
\* socket_thread and receiver as they were.
C7_FailedBindChangesNothing ==
    [][\A config \in Configs :
          (Bind(FALSE) \/ BindWithConfig(config, FALSE))
            => (/\ ret' = [kind |-> "Err"]
                /\ UNCHANGED <<bindingVars, chanVars, bridgeVars, appPc>>)]_vars

\* a bind has failed on a Bridge that holds a running binding
C7_Witness ==
    /\ ret = [kind |-> "Err"]
    /\ nbind = 1
    /\ Running /\ alive[1]

\* C8: a successful bind leaves the Bridge with a thread handle and a receive
\* endpoint, both of the new binding, whose flag is false and whose loop is
\* running; a get_event that finds no event on a connected channel returns
\* None and changes nothing; and between two calls the Bridge holds a thread
\* handle exactly when it holds a receive endpoint.
C8_BoundBridgeRuns ==
    /\ [][\A config \in Configs :
            BindWithConfig(config, TRUE)
              => (/\ ret' = [kind |-> "Ok"]
                  /\ nbind' = nbind + 1
                  /\ socket_thread' = nbind' /\ receiver' = nbind'
                  /\ alive'[nbind'] /\ ~stop_signal'[nbind']
                  /\ pc'[nbind'] = "check")]_vars
    /\ [][(GetEvent /\ receiver # NoBinding /\ evq[receiver] = <<>>
              /\ ~TransportDropped(receiver))
            => (ret' = None /\ Running'
                  /\ UNCHANGED <<bindingVars, chanVars, bridgeVars, appPc>>)]_vars
    /\ [](appPc = "idle" => (socket_thread = receiver))

\* after a bind and before any event, get_event has returned None and the
\* Bridge is running
C8_Witness ==
    /\ nbind = 1 /\ Running
    /\ alive[1] /\ ~stop_signal[1]
    /\ produced[1] = <<>>
    /\ ret = None

\* C9: the packets the polls of a binding have taken, followed by the packets
\* still in its packet channel, are the packets sent on its handle in the
\* order of the calls: none reordered, none duplicated.
C9_PacketsInOrder ==
    \A b \in Bindings : sent[b] = taken[b] \o pktq[b]

\* two packets sent on one handle have both been taken by the transport
C9_Witness ==
    \E b \in Bindings : Len(sent[b]) >= 2 /\ taken[b] = sent[b]

\* C10: a get_event call removes at most one event from the receive channel:
\* a call that returns Some(e) removes the head event e and nothing else, a
\* call that returns None (or blocks in its join) removes nothing.
C10_AtMostOneEventPerCall ==
    [][(GetEvent \/ GetEventJoined) =>
          \/ /\ GetEventReturns
             /\ receiver # NoBinding
             /\ evq[receiver] # <<>>
             /\ ret' = Some(ToNetworkEvent(Head(evq[receiver])))
             /\ evq' = [evq EXCEPT ![receiver] = Tail(evq[receiver])]
          \/ /\ evq' = evq
             /\ (GetEventReturns => ret' = None)]_vars

\* a call has returned one event and left another one queued
C10_Witness ==
    /\ receiver # NoBinding
    /\ ret.kind = "Some"
    /\ Len(delivered[receiver]) = 1
    /\ ret.ev = delivered[receiver][1]
    /\ Len(evq[receiver]) >= 1

\* C11: the flag of a binding is false when the bind creates it, and once it
\* is true no step sets it back to false; the only steps that write it are
\* the drop of the binding's handle, which sets it, and the bind that
\* creates it.
C11_FlagMonotonic ==
    [][\A b \in Bindings :
          /\ stop_signal[b] => stop_signal'[b]
          /\ (pc[b] = "none" /\ pc'[b] # "none") => ~stop_signal'[b]
          /\ (stop_signal'[b] # stop_signal[b])
                => (alive[b] /\ ~alive'[b] /\ stop_signal'[b])]_vars

\* the flag of the first binding is still set after its loop has read it and
\* ended, and after a later bind and a get_event on the Bridge
C11_Witness ==
    /\ nbind = 2
    /\ stop_signal[1] /\ pc[1] = "done"
    /\ alive[2] /\ ~stop_signal[2]
    /\ ret = None

\* C12: get_event starts a join only in a call that finds the receive
\* channel disconnected, and then the poll loop of the thread it joins has
\* already left its while loop: a join never waits on a loop that is still
\* iterating.  A call that finds the channel empty but connected returns
\* None, joins nothing and leaves the Bridge as it is, whether or not the
\* handle has been dropped.
C12_JoinOnlyAfterLoopLeft ==
    /\ [](appPc = "join"
            => (joinee # NoBinding /\ joinee = receiver /\ TransportDropped(joinee)))
    /\ [][(appPc # "join" /\ appPc' = "join")
            => (/\ receiver # NoBinding
                /\ TransportDropped(receiver)
                /\ evq[receiver] = <<>>)]_vars
    /\ [][(\E b \in Bindings : joins'[b] # joins[b])
            => (appPc = "join" /\ pc[joinee] = "done")]_vars
    /\ [][(GetEvent /\ receiver # NoBinding /\ evq[receiver] = <<>>
              /\ pc[receiver] \in {"check", "poll"})
            => (/\ ret' = None
                /\ appPc' = "idle"
                /\ UNCHANGED <<bridgeVars, bindingVars, chanVars>>)]_vars

\* get_event is blocked in its join on a thread that has left its loop and
\* has not terminated yet
C12_Witness ==
    /\ appPc = "join"
    /\ pc[joinee] = "dropped"
    /\ stop_signal[joinee]

\* C13: once the flag of a binding is set, its poll loop does not enter the
\* loop body again: the only transport poll that can still run is the one
\* whose body was entered before the flag was set (at most one further
\* poll), and the next check of the flag leaves the loop.
C13_StopSeenAtNextCheck ==
    [][\A b \in Bindings :
          stop_signal[b] =>
            /\ ~(pc[b] = "check" /\ pc'[b] = "poll")
            /\ (pc[b] = "check" /\ pc'[b] # "check") => pc'[b] = "dropped"
            /\ (pc[b] = "poll" /\ pc'[b] # "poll") => pc'[b] = "check"]_vars

\* the flag was set while the loop was between its check and its poll: one
\* more poll runs
C13_Witness ==
    \E b \in Bindings : stop_signal[b] /\ ~alive[b] /\ pc[b] = "poll"

\* C14: every thread that a bind has started is still referred to by the
\* Bridge (in socket_thread, or in the handle get_event is joining) or has
\* been joined by it.
C14_NoStaleUnjoinedUnit ==
    \A b \in Bindings :
        pc[b] # "none" => (socket_thread = b \/ joinee = b \/ joins[b] >= 1)

\* C15: a get_event that takes a transport event returns exactly one
\* NetworkEvent, of the corresponding variant and with the payload
\* unchanged: Packet(p) gives Message(p), Connect(a) gives Connect(a),
\* Timeout(a) gives Timeout(a), Disconnect(a) gives Disconnect(a); no variant
\* gives None or another variant.
C15_VariantForVariant ==
    [][(GetEventReturns /\ receiver # NoBinding /\ evq[receiver] # <<>>) =>
          LET m == Head(evq[receiver]) IN
          /\ ret'.kind = "Some"
          /\ ret'.ev.tag = (IF m.kind = "Packet" THEN "Message" ELSE m.kind)
          /\ ret'.ev.data = m.data
          /\ Len(delivered'[receiver]) = Len(delivered[receiver]) + 1
          /\ delivered'[receiver][Len(delivered'[receiver])] = ret'.ev]_vars

\* get_event has returned the Timeout the transport produced, with its
\* payload
C15_Witness ==
    /\ receiver = 1
    /\ produced[1][1] = [kind |-> "Timeout", data |-> <<1, 1>>]
    /\ delivered[1] = <<[tag |-> "Timeout", data |-> <<1, 1>>]>>
    /\ ret = Some(delivered[1][1])

\* C16: the events still queued when the poll loop ends are not discarded:
\* while the receive channel holds an event, a get_event returns its head
\* and leaves the Bridge running, also after the loop has ended; the call
\* that joins finds the channel empty, every event produced having been
\* returned; so a joined binding has had all its events returned, in order.
C16_QueuedEventsSurviveExit ==
    /\ [][(GetEvent /\ receiver # NoBinding /\ TransportDropped(receiver)
              /\ evq[receiver] # <<>>)
            => (/\ ret' = Some(ToNetworkEvent(Head(evq[receiver])))
                /\ evq'[receiver] = Tail(evq[receiver])
                /\ appPc' = "idle"
                /\ UNCHANGED bridgeVars)]_vars
    /\ [][(appPc # "join" /\ appPc' = "join")
            => (/\ evq[receiver] = <<>>
                /\ delivered[receiver] = ToNetworkEvents(produced[receiver]))]_vars
    /\ [](\A b \in Bindings :
            joins[b] >= 1 => (evq[b] = <<>> /\ delivered[b] = ToNetworkEvents(produced[b])))

\* the loop has ended with two events produced; one has been returned, the
\* other is still queued, and the Bridge has not stopped
C16_Witness ==
    \E b \in Bindings :
        /\ receiver = b /\ socket_thread = b /\ appPc = "idle"
        /\ pc[b] = "done"
        /\ Len(produced[b]) = 2
        /\ Len(evq[b]) = 1
        /\ ret = Some(ToNetworkEvent(produced[b][1]))

\* C17: while the handle of a binding has not been dropped, the poll loop of
\* that binding has not left the loop and still holds the receiving end of
\* the packet channel; so every send on the handle is accepted: it appends
\* the packet to the channel and returns, and never panics, whatever the
\* poll loops, get_event and later binds have done in between.
C17_SendOnLiveHandleSucceeds ==
    /\ [](\A b \in Bindings : alive[b] => ~TransportDropped(b))
    /\ [][\A b \in Bindings, p \in Packets :
             Send(b, p)
               => (/\ ret' = [kind |-> "Sent"]
                   /\ appPc' = appPc
                   /\ sent'[b] = Append(sent[b], p)
                   /\ pktq'[b] = Append(pktq[b], p))]_vars

\* after a second bind, two sends on the first handle have been accepted
\* between two polls of its loop
C17_Witness ==
    /\ nbind = 2
    /\ alive[1]
    /\ sent[2] = <<>>
    /\ Len(pktq[1]) = 2
    /\ ret = [kind |-> "Sent"]

\* C18: every packet accepted by send is taken by a transport poll before the
\* poll loop exits: when the loop of a binding has terminated, no accepted
\* packet is left in its packet channel, and all accepted packets have been
\* taken.
C18_NoPacketLeftAtExit ==
    \A b \in Bindings :
        TransportDropped(b) => (pktq[b] = <<>> /\ taken[b] = sent[b])

\* C19: bindings are isolated: dropping the handle of a binding sets the
\* flag of that binding only and touches no loop; a bind gives the new
\* binding a flag, channels and a loop of its own and leaves the flag, the
\* loop and the channels of the earlier bindings as they were; the loop of a
\* binding leaves only on its own flag, after its own handle was dropped,
\* and keeps running across any step on which its handle is still held.
C19_BindingsIsolated ==
    /\ [][\A b \in Bindings :
             DropSocket(b)
               => (/\ stop_signal'[b]
                   /\ pc' = pc
                   /\ \A c \in Bindings \ {b} :
                        /\ stop_signal'[c] = stop_signal[c]
                        /\ alive'[c] = alive[c])]_vars
    /\ [][nbind' # nbind
            => (/\ nbind' = nbind + 1
                /\ pc'[nbind'] = "check" /\ ~stop_signal'[nbind'] /\ alive'[nbind']
                /\ \A c \in 1..nbind :
                     /\ stop_signal'[c] = stop_signal[c]
                     /\ alive'[c] = alive[c]
                     /\ pc'[c] = pc[c]
                     /\ pktq'[c] = pktq[c]
                     /\ evq'[c] = evq[c])]_vars
    /\ [][\A c \in Bindings :
             /\ (pc[c] \in {"check", "poll"} /\ pc'[c] = "dropped")
                   => (stop_signal[c] /\ ~alive[c])
             /\ (pc[c] \in {"check", "poll"} /\ alive'[c])
                   => pc'[c] \in {"check", "poll"}]_vars

\* the first binding has shut down, its handle dropped; the second, bound
\* before or after, has its flag clear and is polling, packets taken
C19_Witness ==
    /\ ~alive[1] /\ stop_signal[1] /\ pc[1] = "done"
    /\ alive[2] /\ ~stop_signal[2] /\ pc[2] = "poll"
    /\ taken[2] # <<>>

====
